---- MODULE Spec2Model ----
(***************************************************************************)
(* Commet (src/commet.go): a minimal local version-control engine.         *)
(*                                                                         *)
(* The model is the repository on disk (.commet/, .commet/staged.json,     *)
(* .commet/commits/<hash>) and the CLI invocations working on it.  Every   *)
(* invocation is one call of Repo.Init, Repo.Add, Repo.Commit or           *)
(* Repo.Status, broken into the system calls it makes, so that an          *)
(* invocation can fail or be killed between two of them and two            *)
(* invocations can interleave.                                             *)
(***************************************************************************)
EXTENDS Integers, Sequences, FiniteSets, TLC

\* ------------------------------------------------------------------ bounds

MaxStaged == 2      \* Add is not started once staged.json holds this many entries
MaxClock  == 1      \* time.Now() reads 0..MaxClock
MaxCalls  == 4      \* calls made in all when the invocations interleave

\* ------------------------------------------------------------------ inputs

Procs    == {"p1", "p2"}           \* CLI invocations that may be alive at once
Paths    == {"a.txt", "b.txt"}     \* working-tree files named on the command line
Contents == {"x"}                  \* bytes a working-tree file may hold
Messages == {"m1"}                 \* commit messages

NoProc == "none"
NoIno  == "none"
\* One inode for the linked staged.json and one per invocation that may still
\* hold an unlinked one open.
Inodes == {"i1", "i2", "i3"}

\* ------------------------------------------------------------------ values

\* crypto/sha1 over a byte string: collision-free, so the digest determines its
\* input; the digest is not the input.
Sha1(bytes) == <<"sha1", bytes>>

\* time.Time.String()
TimeString(t) == <<"time", t>>

\* The names a commit record can get: sha1 of message + time.Now().String().
CommitHash(message, now) == Sha1(<<message, TimeString(now)>>)
CommitHashes == {CommitHash(m, t) : m \in Messages, t \in 0..MaxClock}

\* What a file holds: a complete JSON document, or the leading bytes of one
\* that are not the whole of it: none (the file was created or truncated and
\* not written yet) or some (a write that stopped early).  No code of the
\* program tells the two apart: Decode fails on both.
Json(v)  == [kind |-> "json", val |-> v]
Torn     == [kind |-> "torn", val |-> <<>>]
Absent   == [kind |-> "absent", val |-> <<>>]
Free     == [kind |-> "free", val |-> <<>>]

NoData   == [path |-> "", hash |-> <<>>]
NoCommit == [Hash |-> <<>>, Message |-> "", Timestamp |-> <<>>, Files |-> <<>>]
NoRes    == [op |-> "none", status |-> "none", at |-> "none",
             header |-> "", paths |-> <<>>, data |-> NoData, commit |-> NoCommit,
             read |-> <<>>]

VARIABLES
  vcsDir,      \* .commet/ exists
  commitsDir,  \* .commet/commits/ exists
  stagedIno,   \* inode .commet/staged.json names, NoIno when there is no such file
  inodes,      \* inode -> what the file holds (Free: not in use)
  commits,     \* .commet/commits/: hash (the file name) -> what the file holds
  clock,       \* the latest instant time.Now() returned
  pc,          \* per invocation: the system call it makes next
  fileData,    \* Add's fileData
  staged,      \* Add's, Commit's and Status' staged
  file,        \* the inode of the staged.json the invocation holds open
  commit,      \* Commit's commit
  res,         \* what the invocation returned (error, printed lines)
  pre,         \* history: the repository as the invocation's call found it
  last,        \* history: the invocation that returned last, no call started since
  overlap,     \* history: how many other calls were alive during this call (2: more)
  sinceCommit, \* history: a Commit returned nil and no Add was called since
  mkdirs,      \* history: how often Init created .commet/
  serial,      \* the invocations run one after the other (never changes)
  calls        \* calls begun so far (counted when the invocations interleave)

disk  == <<vcsDir, commitsDir, stagedIno, inodes, commits>>
local == <<fileData, staged, commit>>
vars  == <<vcsDir, commitsDir, stagedIno, inodes, commits, clock, pc, fileData,
           staged, file, commit, res, pre, last, overlap, sinceCommit, mkdirs, serial, calls>>

\* ------------------------------------------------------------------ the file system

\* .commet/staged.json as a reader finds it by name.
StagedFile == IF vcsDir /\ stagedIno # NoIno THEN inodes[stagedIno] ELSE Absent

StagedExists == vcsDir /\ stagedIno # NoIno

\* An inode lives while a name or an open descriptor refers to it.
Gc(tbl, link, fds) ==
  [i \in Inodes |-> IF i = link \/ (\E q \in Procs : fds[q] = i) THEN tbl[i] ELSE Free]

FreeIno == CHOOSE i \in Inodes : inodes[i] = Free

Closed(p) == [file EXCEPT ![p] = NoIno]

\* encoding/json: staged.json is the array of {path, hash} objects, and
\* Decoder.Decode gives the array back from a complete document only.
EncodeStaged(entries) == Json(entries)
Decodable(content) == content.kind = "json"
DecodeStaged(content) == content.val

\* json.Marshal(commit)
MarshalCommit(c) == Json(c)

\* ------------------------------------------------------------------ history

Snapshot == [vcsDir |-> vcsDir, commitsDir |-> commitsDir,
             staged |-> StagedFile, commits |-> commits]
NoSnap   == [vcsDir |-> FALSE, commitsDir |-> FALSE, staged |-> Free,
             commits |-> [h \in CommitHashes |-> Free]]

Idle(p)  == pc[p] = "idle"
AllIdle  == \A p \in Procs : Idle(p)

\* A call may begin: the invocation is not in one, and when the invocations
\* run one after the other no other invocation is in one either.
MayCall(p) == Idle(p) /\ (IF serial THEN AllIdle ELSE calls < MaxCalls)

\* A call begins: what earlier calls returned is no longer the latest.
StartRes == [q \in Procs |-> NoRes]
StartPre(p) == [q \in Procs |-> IF q = p THEN Snapshot ELSE IF Idle(q) THEN NoSnap ELSE pre[q]]
StartOverlap(p) ==
  [q \in Procs |->
     IF q = p THEN (IF Cardinality({r \in Procs \ {p} : ~Idle(r)}) > 1 THEN 2
                    ELSE Cardinality({r \in Procs \ {p} : ~Idle(r)}))
     ELSE IF Idle(q) THEN 0
     ELSE IF overlap[q] = 0 THEN 1 ELSE 2]

\* What a call returned: the error (status) and the place it returned from, the
\* lines Status printed, and for the history the entry Add was staging, the
\* record Commit had built and the staged entries Commit had read.
Result(op, status, at) ==
  [op |-> op, status |-> status, at |-> at, header |-> "", paths |-> <<>>,
   data |-> NoData, commit |-> NoCommit, read |-> <<>>]

TypeOK ==
  /\ vcsDir \in BOOLEAN /\ commitsDir \in BOOLEAN
  /\ stagedIno \in Inodes \cup {NoIno}
  /\ clock \in 0..MaxClock
  /\ last \in Procs \cup {NoProc}
  /\ sinceCommit \in BOOLEAN

Init ==
  /\ vcsDir = FALSE
  /\ commitsDir = FALSE
  /\ stagedIno = NoIno
  /\ inodes = [i \in Inodes |-> Free]
  /\ commits = [h \in CommitHashes |-> Absent]
  /\ clock = 0
  /\ pc = [p \in Procs |-> "idle"]
  /\ fileData = [p \in Procs |-> NoData]
  /\ staged = [p \in Procs |-> <<>>]
  /\ file = [p \in Procs |-> NoIno]
  /\ commit = [p \in Procs |-> NoCommit]
  /\ res = [p \in Procs |-> NoRes]
  /\ pre = [p \in Procs |-> NoSnap]
  /\ last = NoProc
  /\ overlap = [p \in Procs |-> 0]
  /\ sinceCommit = FALSE
  /\ mkdirs = 0
  /\ serial = TRUE
  /\ calls = 0

\* The same repository, the invocations free to interleave.
InitConc ==
  /\ vcsDir = FALSE
  /\ commitsDir = FALSE
  /\ stagedIno = NoIno
  /\ inodes = [i \in Inodes |-> Free]
  /\ commits = [h \in CommitHashes |-> Absent]
  /\ clock = 0
  /\ pc = [p \in Procs |-> "idle"]
  /\ fileData = [p \in Procs |-> NoData]
  /\ staged = [p \in Procs |-> <<>>]
  /\ file = [p \in Procs |-> NoIno]
  /\ commit = [p \in Procs |-> NoCommit]
  /\ res = [p \in Procs |-> NoRes]
  /\ pre = [p \in Procs |-> NoSnap]
  /\ last = NoProc
  /\ overlap = [p \in Procs |-> 0]
  /\ sinceCommit = FALSE
  /\ mkdirs = 0
  /\ serial = FALSE
  /\ calls = 0

\* A directory as the first call may find it: without .commet/, or with a
\* .commet/ whose staged.json holds the empty array.  No Add writes that file
\* (Add always appends), it is there when something else left it; Status has
\* a branch for it (len(staged) == 0).
InitDisk ==
  /\ \E found \in {Absent, Json(<<>>)} :
       /\ vcsDir = (found # Absent)
       /\ stagedIno = IF found = Absent THEN NoIno ELSE "i1"
       /\ inodes = [i \in Inodes |-> IF i = "i1" /\ found # Absent THEN found ELSE Free]
       /\ mkdirs = IF found = Absent THEN 0 ELSE 1
  /\ commitsDir = FALSE
  /\ commits = [h \in CommitHashes |-> Absent]
  /\ clock = 0
  /\ pc = [p \in Procs |-> "idle"]
  /\ fileData = [p \in Procs |-> NoData]
  /\ staged = [p \in Procs |-> <<>>]
  /\ file = [p \in Procs |-> NoIno]
  /\ commit = [p \in Procs |-> NoCommit]
  /\ res = [p \in Procs |-> NoRes]
  /\ pre = [p \in Procs |-> NoSnap]
  /\ last = NoProc
  /\ overlap = [p \in Procs |-> 0]
  /\ sinceCommit = FALSE
  /\ serial = TRUE
  /\ calls = 0

\* ------------------------------------------------------------------ control flow

\* The first system call of a call, the call going on to `to`.
CallStep(p, to) ==
  /\ MayCall(p)
  /\ pc' = [pc EXCEPT ![p] = to]
  /\ res' = StartRes
  /\ pre' = StartPre(p)
  /\ overlap' = StartOverlap(p)
  /\ last' = NoProc
  /\ calls' = IF serial THEN calls ELSE calls + 1
  /\ UNCHANGED serial

\* The first system call of a call, the call returning r right after it.
CallReturn(p, r) ==
  /\ MayCall(p)
  /\ pc' = pc
  /\ res' = [StartRes EXCEPT ![p] = r]
  /\ pre' = StartPre(p)
  /\ overlap' = StartOverlap(p)
  /\ last' = p
  /\ calls' = IF serial THEN calls ELSE calls + 1
  /\ UNCHANGED <<file, local, serial>>

\* A later system call, the call going on to `to`.
Step(p, from, to) ==
  /\ pc[p] = from
  /\ pc' = [pc EXCEPT ![p] = to]
  /\ UNCHANGED <<res, pre, last, overlap, serial, calls>>

\* A later system call, the call returning r after it: the deferred
\* file.Close() runs and the locals go.
StepReturn(p, from, r) ==
  /\ pc[p] = from
  /\ pc' = [pc EXCEPT ![p] = "idle"]
  /\ res' = [res EXCEPT ![p] = r]
  /\ last' = p
  /\ file' = Closed(p)
  /\ fileData' = [fileData EXCEPT ![p] = NoData]
  /\ staged' = [staged EXCEPT ![p] = <<>>]
  /\ commit' = [commit EXCEPT ![p] = NoCommit]
  /\ UNCHANGED <<pre, overlap, serial, calls>>

\* ------------------------------------------------------------------ Repo.Init

\* Init without the check for an existing .commet/.
InitStatUnchecked(p) ==
  /\ CallStep(p, "i_mkdir")
  /\ UNCHANGED <<file, local, disk, clock, sinceCommit, mkdirs>>

\* os.Stat(r.VcsDir)
InitStat(p) ==
  /\ IF vcsDir
       THEN CallReturn(p, Result("Init", "AlreadyInitialized", "i_stat"))
       ELSE CallStep(p, "i_mkdir") /\ UNCHANGED <<file, local>>
  /\ UNCHANGED <<disk, clock, sinceCommit, mkdirs>>

\* os.Mkdir(r.VcsDir): fails when the directory appeared since the Stat.
InitMkdir(p) ==
  /\ IF vcsDir
       THEN /\ StepReturn(p, "i_mkdir", Result("Init", "MkdirError", "i_mkdir"))
            /\ UNCHANGED <<vcsDir, mkdirs>>
       ELSE /\ StepReturn(p, "i_mkdir", Result("Init", "ok", "i_mkdir"))
            /\ vcsDir' = TRUE
            /\ mkdirs' = mkdirs + 1
  /\ UNCHANGED <<commitsDir, stagedIno, inodes, commits, clock, sinceCommit>>

\* os.Mkdir(r.VcsDir) fails for another reason (no permission, no space).
InitMkdirFail(p) ==
  /\ StepReturn(p, "i_mkdir", Result("Init", "MkdirError", "i_mkdir"))
  /\ UNCHANGED <<disk, clock, sinceCommit, mkdirs>>

\* ------------------------------------------------------------------ Repo.Add

\* r.HashFile(filePath): the working-tree file holds `bytes`.
HashFile(bytes) == Sha1(bytes)

\* append that drops a path already staged.
StagedAppendOnce(entries, data) ==
  IF \E i \in 1..Len(entries) : entries[i].path = data.path THEN entries ELSE Append(entries, data)

\* staged = append(staged, fileData)
StagedAppend(entries, data) == Append(entries, data)

AddResult(p, status, at) == [Result("Add", status, at) EXCEPT !.data = fileData[p]]

AddHashFile(p, filePath, bytes) ==
  /\ Len(StagedFile.val) < MaxStaged
  /\ CallStep(p, "a_stat")
  /\ fileData' = [fileData EXCEPT ![p] = [path |-> filePath, hash |-> HashFile(bytes)]]
  /\ sinceCommit' = FALSE
  /\ UNCHANGED <<disk, clock, staged, file, commit, mkdirs>>

\* Add that creates staged.json before it hashes the file.
AddHashFileFailCreated(p, filePath) ==
  /\ CallReturn(p, [Result("Add", "FileError", "a_hash") EXCEPT !.data.path = filePath])
  /\ sinceCommit' = FALSE
  /\ IF vcsDir
       THEN LET ino == IF stagedIno = NoIno THEN FreeIno ELSE stagedIno
            IN /\ stagedIno' = ino
               /\ inodes' = [inodes EXCEPT ![ino] = Torn]
       ELSE UNCHANGED <<stagedIno, inodes>>
  /\ UNCHANGED <<vcsDir, commitsDir, commits, clock, mkdirs>>

\* r.HashFile(filePath): the file cannot be opened or read.
AddHashFileFail(p, filePath) ==
  /\ CallReturn(p, [Result("Add", "FileError", "a_hash") EXCEPT !.data.path = filePath])
  /\ sinceCommit' = FALSE
  /\ UNCHANGED <<disk, clock, mkdirs>>

\* Add that never reads the staged.json that is there.
AddStatBlind(p) ==
  /\ Step(p, "a_stat", "a_create")
  /\ UNCHANGED <<disk, clock, local, file, sinceCommit, mkdirs>>

\* os.Stat(stagedFile): any error leaves staged nil.
AddStat(p) ==
  /\ Step(p, "a_stat", IF StagedExists THEN "a_open" ELSE "a_create")
  /\ UNCHANGED <<disk, clock, local, file, sinceCommit, mkdirs>>

\* os.Open(stagedFile): fails when the file went away since the Stat.
AddOpen(p) ==
  /\ IF StagedExists
       THEN /\ Step(p, "a_open", "a_decode")
            /\ file' = [file EXCEPT ![p] = stagedIno]
            /\ UNCHANGED local
       ELSE StepReturn(p, "a_open", AddResult(p, "OpenError", "a_open"))
  /\ UNCHANGED <<disk, clock, sinceCommit, mkdirs>>

AddOpenFail(p) ==
  /\ StepReturn(p, "a_open", AddResult(p, "OpenError", "a_open"))
  /\ UNCHANGED <<disk, clock, sinceCommit, mkdirs>>

\* Add that starts from nothing staged when staged.json does not decode.
AddDecodeLenient(p) ==
  /\ pc[p] = "a_decode"
  /\ Step(p, "a_decode", "a_create")
  /\ staged' = [staged EXCEPT ![p] = IF Decodable(inodes[file[p]])
                                        THEN DecodeStaged(inodes[file[p]]) ELSE <<>>]
  /\ UNCHANGED <<fileData, commit, file, disk, clock, sinceCommit, mkdirs>>

\* json.NewDecoder(file).Decode(&staged)
AddDecode(p) ==
  /\ pc[p] = "a_decode"
  /\ IF Decodable(inodes[file[p]])
       THEN /\ Step(p, "a_decode", "a_create")
            /\ staged' = [staged EXCEPT ![p] = DecodeStaged(inodes[file[p]])]
            /\ UNCHANGED <<fileData, commit, file, inodes>>
       ELSE /\ StepReturn(p, "a_decode", AddResult(p, "DecodeError", "a_decode"))
            /\ inodes' = Gc(inodes, stagedIno, Closed(p))
  /\ UNCHANGED <<vcsDir, commitsDir, stagedIno, commits, clock, sinceCommit, mkdirs>>

\* Add that makes .commet/ when it is missing (os.MkdirAll before os.Create).
AddCreateMkdirAll(p) ==
  /\ pc[p] = "a_create"
  /\ Len(staged[p]) < MaxStaged
  /\ LET ino == IF ~vcsDir \/ stagedIno = NoIno THEN FreeIno ELSE stagedIno
         fds == [file EXCEPT ![p] = ino]
     IN /\ Step(p, "a_create", "a_encode")
        /\ staged' = [staged EXCEPT ![p] = StagedAppend(staged[p], fileData[p])]
        /\ vcsDir' = TRUE
        /\ stagedIno' = ino
        /\ file' = fds
        /\ inodes' = Gc([inodes EXCEPT ![ino] = Torn], ino, fds)
        /\ UNCHANGED <<fileData, commit>>
  /\ UNCHANGED <<commitsDir, commits, clock, sinceCommit, mkdirs>>

\* staged = append(staged, fileData); os.Create(stagedFile): O_CREATE|O_TRUNC,
\* so an existing staged.json is emptied in place.  The descriptor Add read
\* from stays open until Add returns but is not read again.
AddCreate(p) ==
  /\ pc[p] = "a_create"
  /\ Len(staged[p]) < MaxStaged   \* the bound, for an Add that read a longer file than its call found
  /\ IF ~vcsDir
       THEN /\ StepReturn(p, "a_create", AddResult(p, "CreateError", "a_create"))
            /\ inodes' = Gc(inodes, stagedIno, Closed(p))
            /\ UNCHANGED stagedIno
       ELSE LET ino == IF stagedIno = NoIno THEN FreeIno ELSE stagedIno
                fds == [file EXCEPT ![p] = ino]
            IN /\ Step(p, "a_create", "a_encode")
               /\ staged' = [staged EXCEPT ![p] = StagedAppend(staged[p], fileData[p])]
               /\ stagedIno' = ino
               /\ file' = fds
               /\ inodes' = Gc([inodes EXCEPT ![ino] = Torn], ino, fds)
               /\ UNCHANGED <<fileData, commit>>
  /\ UNCHANGED <<vcsDir, commitsDir, commits, clock, sinceCommit, mkdirs>>

AddCreateFail(p) ==
  /\ StepReturn(p, "a_create", AddResult(p, "CreateError", "a_create"))
  /\ inodes' = Gc(inodes, stagedIno, Closed(p))
  /\ UNCHANGED <<vcsDir, commitsDir, stagedIno, commits, clock, sinceCommit, mkdirs>>

\* Add that makes sure .commet/commits/ exists as it writes.
AddEncodeMkdir(p) ==
  /\ pc[p] = "a_encode"
  /\ StepReturn(p, "a_encode", AddResult(p, "ok", "a_encode"))
  /\ inodes' = Gc([inodes EXCEPT ![file[p]] = EncodeStaged(staged[p])], stagedIno, Closed(p))
  /\ commitsDir' = TRUE
  /\ UNCHANGED <<vcsDir, stagedIno, commits, clock, sinceCommit, mkdirs>>

\* json.NewEncoder(file).Encode(staged), then "Added ..." and return nil.
AddEncode(p) ==
  /\ pc[p] = "a_encode"
  /\ StepReturn(p, "a_encode", AddResult(p, "ok", "a_encode"))
  /\ inodes' = Gc([inodes EXCEPT ![file[p]] = EncodeStaged(staged[p])], stagedIno, Closed(p))
  /\ UNCHANGED <<vcsDir, commitsDir, stagedIno, commits, clock, sinceCommit, mkdirs>>

\* Encode fails: the write put nothing or only part of the document in the file.
AddEncodeFail(p) ==
  /\ pc[p] = "a_encode"
  /\ StepReturn(p, "a_encode", AddResult(p, "EncodeError", "a_encode"))
  /\ inodes' = Gc([inodes EXCEPT ![file[p]] = Torn], stagedIno, Closed(p))
  /\ UNCHANGED <<vcsDir, commitsDir, stagedIno, commits, clock, sinceCommit, mkdirs>>

\* ------------------------------------------------------------------ Repo.Commit

CommitResult(p, status, at) ==
  [Result("Commit", status, at) EXCEPT !.commit = commit[p], !.read = staged[p]]

\* Commit that creates .commet/commits/ before it looks for staged.json.
CommitOpenMkdirFirst(p, message) ==
  /\ IF StagedExists
       THEN /\ CallStep(p, "c_decode")
            /\ file' = [file EXCEPT ![p] = stagedIno]
            /\ commit' = [commit EXCEPT ![p] = [NoCommit EXCEPT !.Message = message]]
            /\ UNCHANGED <<fileData, staged>>
       ELSE CallReturn(p, Result("Commit", "NothingToCommit", "c_open"))
  /\ vcsDir' = TRUE
  /\ commitsDir' = TRUE
  /\ UNCHANGED <<stagedIno, inodes, commits, clock, sinceCommit, mkdirs>>

\* os.Open(stagedFile): every error is reported as "no changes to commit".
CommitOpen(p, message) ==
  /\ IF StagedExists
       THEN /\ CallStep(p, "c_decode")
            /\ file' = [file EXCEPT ![p] = stagedIno]
            /\ commit' = [commit EXCEPT ![p] = [NoCommit EXCEPT !.Message = message]]
            /\ UNCHANGED <<fileData, staged>>
       ELSE CallReturn(p, Result("Commit", "NothingToCommit", "c_open"))
  /\ UNCHANGED <<disk, clock, sinceCommit, mkdirs>>

\* os.Open(stagedFile) fails on a file that is there (no permission).
CommitOpenFail(p, message) ==
  /\ StagedExists
  /\ CallReturn(p, Result("Commit", "NothingToCommit", "c_open"))
  /\ UNCHANGED <<disk, clock, sinceCommit, mkdirs>>

\* json.NewDecoder(file).Decode(&staged)
CommitDecode(p) ==
  /\ pc[p] = "c_decode"
  /\ IF Decodable(inodes[file[p]])
       THEN /\ Step(p, "c_decode", "c_build")
            /\ staged' = [staged EXCEPT ![p] = DecodeStaged(inodes[file[p]])]
            /\ UNCHANGED <<fileData, commit, file, inodes>>
       ELSE /\ StepReturn(p, "c_decode", CommitResult(p, "ReadStagedError", "c_decode"))
            /\ inodes' = Gc(inodes, stagedIno, Closed(p))
  /\ UNCHANGED <<vcsDir, commitsDir, stagedIno, commits, clock, sinceCommit, mkdirs>>

\* The Commit literal: Hash from message + time.Now().String(), Timestamp from
\* a second time.Now(), Files: []string{}.
NewCommit(message, now1, now2, entries) ==
  [Hash |-> CommitHash(message, now1), Message |-> message,
   Timestamp |-> TimeString(now2), Files |-> <<>>]

CommitBuild(p, now1, now2) ==
  /\ clock <= now1 /\ now1 <= now2
  /\ Step(p, "c_build", "c_mkdir")
  /\ clock' = now2
  /\ commit' = [commit EXCEPT ![p] = NewCommit(commit[p].Message, now1, now2, staged[p])]
  /\ UNCHANGED <<disk, fileData, staged, file, sinceCommit, mkdirs>>

\* os.MkdirAll(commitDir)
CommitMkdirAll(p) ==
  /\ Step(p, "c_mkdir", "c_create")
  /\ vcsDir' = TRUE
  /\ commitsDir' = TRUE
  /\ UNCHANGED <<stagedIno, inodes, commits, clock, local, file, sinceCommit, mkdirs>>

CommitMkdirAllFail(p) ==
  /\ pc[p] = "c_mkdir"
  /\ StepReturn(p, "c_mkdir", CommitResult(p, "MkdirError", "c_mkdir"))
  /\ inodes' = Gc(inodes, stagedIno, Closed(p))
  /\ UNCHANGED <<vcsDir, commitsDir, stagedIno, commits, clock, sinceCommit, mkdirs>>

\* Commit that removes staged.json before it writes the record.
CommitWriteFileOpenClearFirst(p) ==
  /\ pc[p] = "c_create"
  /\ Step(p, "c_create", "c_write")
  /\ commits' = [commits EXCEPT ![commit[p].Hash] = Torn]
  /\ stagedIno' = NoIno
  /\ UNCHANGED <<vcsDir, commitsDir, inodes, local, file, clock, sinceCommit, mkdirs>>

\* os.WriteFile(commitFile, ...) opens with O_CREATE|O_TRUNC ...
CommitWriteFileOpen(p) ==
  /\ pc[p] = "c_create"
  /\ IF commitsDir
       THEN /\ Step(p, "c_create", "c_write")
            /\ commits' = [commits EXCEPT ![commit[p].Hash] = Torn]
            /\ UNCHANGED <<local, file, inodes>>
       ELSE /\ StepReturn(p, "c_create", CommitResult(p, "WriteError", "c_create"))
            /\ inodes' = Gc(inodes, stagedIno, Closed(p))
            /\ UNCHANGED commits
  /\ UNCHANGED <<vcsDir, commitsDir, stagedIno, clock, sinceCommit, mkdirs>>

CommitWriteFileOpenFail(p) ==
  /\ pc[p] = "c_create"
  /\ StepReturn(p, "c_create", CommitResult(p, "WriteError", "c_create"))
  /\ inodes' = Gc(inodes, stagedIno, Closed(p))
  /\ UNCHANGED <<vcsDir, commitsDir, stagedIno, commits, clock, sinceCommit, mkdirs>>

\* Commit that names the file by a hash taken anew from the message and the
\* clock, not by commit.Hash.
CommitWriteFileWriteRenamed(p) ==
  /\ pc[p] = "c_write"
  /\ Step(p, "c_write", "c_remove")
  /\ commits' = [commits EXCEPT ![CommitHash(commit[p].Message, clock)] = MarshalCommit(commit[p])]
  /\ UNCHANGED <<vcsDir, commitsDir, stagedIno, inodes, clock, local, file, sinceCommit, mkdirs>>

\* ... and writes commitData.
CommitWriteFileWrite(p) ==
  /\ pc[p] = "c_write"
  /\ Step(p, "c_write", "c_remove")
  /\ commits' = [commits EXCEPT ![commit[p].Hash] = MarshalCommit(commit[p])]
  /\ UNCHANGED <<vcsDir, commitsDir, stagedIno, inodes, clock, local, file, sinceCommit, mkdirs>>

\* Commit that removes staged.json on its way out of a failed write.
CommitWriteFileWriteFailCleared(p) ==
  /\ pc[p] = "c_write"
  /\ StepReturn(p, "c_write", CommitResult(p, "WriteError", "c_write"))
  /\ commits' = [commits EXCEPT ![commit[p].Hash] = Torn]
  /\ stagedIno' = NoIno
  /\ inodes' = Gc(inodes, NoIno, Closed(p))
  /\ UNCHANGED <<vcsDir, commitsDir, clock, sinceCommit, mkdirs>>

\* The write fails: nothing or only part of the record is in the file.
CommitWriteFileWriteFail(p) ==
  /\ pc[p] = "c_write"
  /\ StepReturn(p, "c_write", CommitResult(p, "WriteError", "c_write"))
  /\ commits' = [commits EXCEPT ![commit[p].Hash] = Torn]
  /\ inodes' = Gc(inodes, stagedIno, Closed(p))
  /\ UNCHANGED <<vcsDir, commitsDir, stagedIno, clock, sinceCommit, mkdirs>>

\* Commit that clears the staging area by writing the empty array to it.
CommitRemoveRewritten(p) ==
  /\ pc[p] = "c_remove"
  /\ StepReturn(p, "c_remove", CommitResult(p, "ok", "c_remove"))
  /\ inodes' = Gc(IF stagedIno = NoIno THEN inodes
                  ELSE [inodes EXCEPT ![stagedIno] = EncodeStaged(<<>>)], stagedIno, Closed(p))
  /\ sinceCommit' = TRUE
  /\ UNCHANGED <<vcsDir, commitsDir, stagedIno, commits, clock, mkdirs>>

\* os.Remove(stagedFile), its error dropped; "Commit successful" and return nil.
CommitRemove(p) ==
  /\ pc[p] = "c_remove"
  /\ StepReturn(p, "c_remove", CommitResult(p, "ok", "c_remove"))
  /\ stagedIno' = NoIno
  /\ inodes' = Gc(inodes, NoIno, Closed(p))
  /\ sinceCommit' = TRUE
  /\ UNCHANGED <<vcsDir, commitsDir, commits, clock, mkdirs>>

\* os.Remove(stagedFile) fails (the file is still open, which Windows refuses;
\* no permission on .commet/): the error is dropped, Commit returns nil.
CommitRemoveFail(p) ==
  /\ pc[p] = "c_remove"
  /\ StagedExists
  /\ StepReturn(p, "c_remove", CommitResult(p, "ok", "c_remove"))
  /\ inodes' = Gc(inodes, stagedIno, Closed(p))
  /\ sinceCommit' = TRUE
  /\ UNCHANGED <<vcsDir, commitsDir, stagedIno, commits, clock, mkdirs>>

\* ------------------------------------------------------------------ Repo.Status

\* The lines Status prints for a decoded staged.
PathsOf(entries) == [i \in 1..Len(entries) |-> entries[i].path]

Report(entries) ==
  IF Len(entries) = 0
    THEN [Result("Status", "ok", "s_decode") EXCEPT !.header = "No changes staged."]
    ELSE [Result("Status", "ok", "s_decode") EXCEPT !.header = "Changes staged:",
                                                    !.paths = PathsOf(entries)]

\* os.Stat(stagedFile): not there, "No changes staged."
StatusStat(p) ==
  /\ IF StagedExists
       THEN CallStep(p, "s_open") /\ UNCHANGED <<file, local>>
       ELSE CallReturn(p, [Result("Status", "ok", "s_stat") EXCEPT !.header = "No changes staged."])
  /\ UNCHANGED <<disk, clock, sinceCommit, mkdirs>>

\* os.Open(stagedFile)
StatusOpen(p) ==
  /\ IF StagedExists
       THEN /\ Step(p, "s_open", "s_decode")
            /\ file' = [file EXCEPT ![p] = stagedIno]
            /\ UNCHANGED local
       ELSE StepReturn(p, "s_open", Result("Status", "OpenError", "s_open"))
  /\ UNCHANGED <<disk, clock, sinceCommit, mkdirs>>

StatusOpenFail(p) ==
  /\ StepReturn(p, "s_open", Result("Status", "OpenError", "s_open"))
  /\ UNCHANGED <<disk, clock, sinceCommit, mkdirs>>

\* Status that removes a staged.json it cannot decode.
StatusDecodeRepair(p) ==
  /\ pc[p] = "s_decode"
  /\ IF Decodable(inodes[file[p]])
       THEN /\ StepReturn(p, "s_decode", Report(DecodeStaged(inodes[file[p]])))
            /\ stagedIno' = stagedIno
            /\ inodes' = Gc(inodes, stagedIno, Closed(p))
       ELSE /\ StepReturn(p, "s_decode", Result("Status", "DecodeError", "s_decode"))
            /\ stagedIno' = NoIno
            /\ inodes' = Gc(inodes, NoIno, Closed(p))
  /\ UNCHANGED <<vcsDir, commitsDir, commits, clock, sinceCommit, mkdirs>>

\* json.NewDecoder(file).Decode(&staged) and the printing.
StatusDecode(p) ==
  /\ pc[p] = "s_decode"
  /\ IF Decodable(inodes[file[p]])
       THEN StepReturn(p, "s_decode", Report(DecodeStaged(inodes[file[p]])))
       ELSE StepReturn(p, "s_decode", Result("Status", "DecodeError", "s_decode"))
  /\ inodes' = Gc(inodes, stagedIno, Closed(p))
  /\ UNCHANGED <<vcsDir, commitsDir, stagedIno, commits, clock, sinceCommit, mkdirs>>

\* ------------------------------------------------------------------ the process

OpOf(label) ==
  CASE label \in {"i_mkdir"} -> "Init"
    [] label \in {"a_stat", "a_open", "a_decode", "a_create", "a_encode"} -> "Add"
    [] label \in {"c_decode", "c_build", "c_mkdir", "c_create", "c_write", "c_remove"} -> "Commit"
    [] label \in {"s_open", "s_decode"} -> "Status"
    [] OTHER -> "none"

\* The invocation is killed (or the machine stops) between two system calls.
Kill(p) ==
  /\ ~Idle(p)
  /\ StepReturn(p, pc[p], [Result(OpOf(pc[p]), "killed", pc[p])
                             EXCEPT !.data = fileData[p], !.commit = commit[p]])
  /\ inodes' = Gc(inodes, stagedIno, Closed(p))
  /\ UNCHANGED <<vcsDir, commitsDir, stagedIno, commits, clock, sinceCommit, mkdirs>>

\* ------------------------------------------------------------------ specifications

\* The system calls of the four operations when nothing fails.
Run(p) ==
  \/ InitStat(p)
  \/ InitMkdir(p)
  \/ \E f \in Paths, b \in Contents : AddHashFile(p, f, b)
  \/ \E f \in Paths : AddHashFileFail(p, f)
  \/ AddStat(p)
  \/ AddOpen(p)
  \/ AddDecode(p)
  \/ AddCreate(p)
  \/ AddEncode(p)
  \/ \E m \in Messages : CommitOpen(p, m)
  \/ CommitDecode(p)
  \/ \E t1, t2 \in 0..MaxClock : CommitBuild(p, t1, t2)
  \/ CommitMkdirAll(p)
  \/ CommitWriteFileOpen(p)
  \/ CommitWriteFileWrite(p)
  \/ CommitRemove(p)
  \/ StatusStat(p)
  \/ StatusOpen(p)
  \/ StatusDecode(p)

\* A system call fails for a reason outside the program, or the invocation dies.
Fail(p) ==
  \/ InitMkdirFail(p)
  \/ AddOpenFail(p)
  \/ AddCreateFail(p)
  \/ AddEncodeFail(p)
  \/ \E m \in Messages : CommitOpenFail(p, m)
  \/ CommitMkdirAllFail(p)
  \/ CommitWriteFileOpenFail(p)
  \/ CommitWriteFileWriteFail(p)
  \/ CommitRemoveFail(p)
  \/ StatusOpenFail(p)
  \/ Kill(p)

\* One invocation at a time; system calls may fail and invocations may die.
Next == \E p \in Procs : Run(p) \/ Fail(p)
Spec == Init /\ [][Next]_vars

\* One invocation at a time, nothing fails.
NextSure == \E p \in Procs : Run(p)
SpecSure == Init /\ [][NextSure]_vars

\* Invocations interleave system call by system call, nothing fails.
SpecConc == InitConc /\ [][NextSure]_vars

\* One invocation at a time, with failures, on a directory as the first call
\* may find it.
SpecDisk == InitDisk /\ [][Next]_vars

\* The same, nothing fails.
SpecDiskSure == InitDisk /\ [][NextSure]_vars


\* ------------------------------------------------------------------ properties

\* The call of p that is in progress, or that returned last with no call begun
\* since, is a call of `op`.
During(p, op) == OpOf(pc[p]) = op
After(p, op)  == last = p /\ res[p].op = op
Returned(p, op, status) == After(p, op) /\ res[p].status = status

\* The entries of a staged.json (none when the file is absent).
SeqOf(content) == content.val

\* The record commits/ holds under the hash of c is c, whole.
Saved(c) == c.Hash \in CommitHashes /\ commits[c.Hash] = MarshalCommit(c)

\* C1: after a Commit that returned nil the staging area is empty, and a Status
\* called next, no Add in between, prints "No changes staged."
C1_CommitClearsStaging ==
  \A p \in Procs : last = p =>
    /\ Returned(p, "Commit", "ok") => StagedFile = Absent
    /\ (res[p].op = "Status" /\ sinceCommit) =>
         (res[p].status = "ok" /\ res[p].header = "No changes staged.")

\* C2: Commit saves the record before it clears the staging area.  Between the
\* save and the clear the record is in the log, whole, and staged.json is as
\* the call found it; whenever a Commit has changed staged.json, at any point of
\* it, its record is in the log, whole; and a Commit killed between the two
\* steps leaves the record there and staged.json as the call found it.
C2_SavedBeforeCleared ==
  \A p \in Procs :
    /\ pc[p] = "c_remove" => (Saved(commit[p]) /\ StagedFile = pre[p].staged)
    /\ (During(p, "Commit") /\ StagedFile # pre[p].staged) => Saved(commit[p])
    /\ (After(p, "Commit") /\ StagedFile # pre[p].staged) => Saved(res[p].commit)
    /\ (Returned(p, "Commit", "killed") /\ res[p].at = "c_remove") =>
         (Saved(res[p].commit) /\ StagedFile = pre[p].staged)

\* C2 witness: a Commit was killed between the save and the clear.
C2_Witness ==
  \E p \in Procs : Returned(p, "Commit", "killed") /\ res[p].at = "c_remove"

\* C3: a successful Add leaves staged.json holding what the call found with the
\* new entry at the end, once more if the path was staged already; a Status
\* lists the paths of staged.json in that order.
C3_StagingAccumulates ==
  \A p \in Procs :
    /\ Returned(p, "Add", "ok") =>
         /\ pre[p].staged.kind \in {"absent", "json"}
         /\ StagedFile = Json(Append(SeqOf(pre[p].staged), res[p].data))
         /\ Len(SeqOf(StagedFile)) = Len(SeqOf(pre[p].staged)) + 1
    /\ (Returned(p, "Status", "ok") /\ pre[p].staged.kind = "json") =>
         res[p].paths = PathsOf(SeqOf(pre[p].staged))

\* C3 witness: the second Add of a.txt returned, and a.txt is staged twice.
C3_Witness ==
  \E p \in Procs :
    /\ Returned(p, "Add", "ok")
    /\ Len(SeqOf(pre[p].staged)) = 1
    /\ PathsOf(SeqOf(StagedFile)) = <<"a.txt", "a.txt">>

\* C4: a Commit that finds no staged.json returns the nothing-to-commit error
\* and leaves .commet/commits/ as it was.
C4_NothingToCommit ==
  \A p \in Procs :
    (After(p, "Commit") /\ pre[p].staged = Absent) =>
      /\ res[p].status = "NothingToCommit"
      /\ commits = pre[p].commits
      /\ commitsDir = pre[p].commitsDir
      /\ vcsDir = pre[p].vcsDir

\* C4 witness: a Commit right after a successful Commit, in a repository that
\* has a commit record.
C4_Witness ==
  \E p \in Procs :
    /\ After(p, "Commit") /\ pre[p].staged = Absent /\ pre[p].vcsDir
    /\ sinceCommit
    /\ \E h \in CommitHashes : commits[h].kind = "json"

\* C5: a call never deletes or changes a commit record that was in the log,
\* whole, when the call began.
C5_CommitLogAppendOnly ==
  \A p \in Procs :
    last = p =>
      \A h \in CommitHashes :
        pre[p].commits[h].kind = "json" => commits[h] = pre[p].commits[h]

\* C6: Init on a repository that has .commet/ returns the already-initialized
\* error and changes nothing on disk; Init returns nil only when it created
\* .commet/, and .commet/ is created once.
C6_InitOnce ==
  /\ mkdirs <= 1
  /\ vcsDir <=> mkdirs = 1
  /\ \A p \in Procs :
       After(p, "Init") =>
         /\ pre[p].vcsDir => (res[p].status = "AlreadyInitialized" /\ Snapshot = pre[p])
         /\ res[p].status = "ok" => (~pre[p].vcsDir /\ vcsDir)

\* C6 witness: Init returned the error on a repository with staged entries and
\* a commit record.
C6_Witness ==
  \E p \in Procs :
    /\ Returned(p, "Init", "AlreadyInitialized")
    /\ StagedFile.kind = "json"
    /\ \E h \in CommitHashes : commits[h].kind = "json"

\* C7: Add, at every point of it and however it ends, leaves .commet/commits/
\* as the call found it; Commit, at every point of it and however it ends,
\* leaves staged.json as the call found it or removes it.
C7_Frame ==
  \A p \in Procs :
    /\ (During(p, "Add") \/ After(p, "Add")) =>
         (commits = pre[p].commits /\ commitsDir = pre[p].commitsDir)
    /\ (During(p, "Commit") \/ After(p, "Commit")) =>
         (StagedFile = pre[p].staged \/ StagedFile = Absent)

\* C7 witness: an Add returned nil in a repository that has a commit record.
C7_Witness ==
  \E p \in Procs :
    /\ Returned(p, "Add", "ok")
    /\ \E h \in CommitHashes : commits[h].kind = "json"

\* C8: the record Commit wrote lists, in Files, the paths of the staged entries
\* Commit read, in order.
C8_FilesFromStaged ==
  \A p \in Procs :
    pc[p] = "c_remove" =>
      /\ commits[commit[p].Hash].kind = "json"
      /\ commits[commit[p].Hash].val.Files = PathsOf(staged[p])

\* C9: however an Add ends (nil, an error, killed), staged.json is as the call
\* found it or is that with the new entry at the end.
C9_AppendAtomic ==
  \A p \in Procs :
    After(p, "Add") =>
      \/ StagedFile = pre[p].staged
      \/ StagedFile = Json(Append(SeqOf(pre[p].staged), res[p].data))

\* The two invocations each made an Add that returned nil, the two calls alive
\* at the same time and no other call alive during either.
TwoAdds(p, q) ==
  /\ p # q /\ AllIdle
  /\ res[p].op = "Add" /\ res[p].status = "ok" /\ overlap[p] = 1
  /\ res[q].op = "Add" /\ res[q].status = "ok" /\ overlap[q] = 1

\* C10: of two Adds alive at the same time that both return nil, the one that
\* wrote last has its entry at the end of staged.json, after what staged.json
\* held before the two or after that and the other's entry: nothing else is
\* lost or made up, and the other's entry is there or is lost.
C10_TwoAddsOutcome ==
  \A p, q \in Procs :
    TwoAdds(p, q) =>
      \E first \in {p, q}, lastw \in {p, q} :
        LET other == CHOOSE r \in {p, q} : r # lastw
            S     == SeqOf(pre[first].staged)
        IN /\ pre[first].staged.kind \in {"absent", "json"}
           /\ \/ StagedFile = Json(Append(S, res[lastw].data))
              \/ StagedFile = Json(Append(Append(S, res[other].data), res[lastw].data))

\* C10 witness: both Adds found no staged.json and returned nil, and
\* staged.json holds one entry: the other is lost.
C10_LostUpdate ==
  \E p, q \in Procs :
    /\ TwoAdds(p, q)
    /\ pre[p].staged = Absent /\ pre[q].staged = Absent
    /\ res[p].data.path = "a.txt" /\ res[q].data.path = "b.txt"
    /\ Len(SeqOf(StagedFile)) = 1

C12_StatusReadOnly ==
  \A p \in Procs :
    /\ (During(p, "Status") \/ After(p, "Status")) => Snapshot = pre[p]
    /\ Returned(p, "Status", "ok") =>
         /\ pre[p].staged.kind \in {"absent", "json"}
         /\ IF Len(SeqOf(pre[p].staged)) = 0
              THEN res[p].header = "No changes staged." /\ res[p].paths = <<>>
              ELSE /\ res[p].header = "Changes staged:"
                   /\ res[p].paths = PathsOf(SeqOf(pre[p].staged))
    /\ (After(p, "Status") /\ pre[p].staged = Torn) => res[p].status # "ok"

\* C12 witness: Status returned its decode error on a staged.json that does
\* not decode.
C12_Witness ==
  \E p \in Procs : Returned(p, "Status", "DecodeError") /\ StagedFile = Torn

\* The call of p, in progress or the last returned, is not a call of Init.
NotInit(p) ==
  \/ During(p, "Add") \/ During(p, "Commit") \/ During(p, "Status")
  \/ After(p, "Add") \/ After(p, "Commit") \/ After(p, "Status")

\* C13: Add, Commit and Status, at every point and however they end, leave
\* .commet/ there or not there as the call found it; without .commet/ they
\* leave the whole disk as it was (no staged.json, no commits/); and .commet/,
\* once made, stays.
C13_OnlyInitInitializes ==
  /\ mkdirs >= 1 => vcsDir
  /\ \A p \in Procs :
       NotInit(p) =>
         /\ vcsDir = pre[p].vcsDir
         /\ ~pre[p].vcsDir => (Snapshot = pre[p] /\ stagedIno = NoIno /\ ~commitsDir)

\* C13 witness: an Add has returned from a directory without .commet/.
C13_Witness ==
  \E p \in Procs : After(p, "Add") /\ res[p].at = "a_create" /\ ~pre[p].vcsDir

\* C14: a whole record in .commet/commits/ is in the file named by its own
\* Hash field (there is one file per name).
C14_StoredUnderOwnHash ==
  \A h \in CommitHashes :
    commits[h].kind = "json" => commits[h].val.Hash = h

\* C14 witness: two records are in the log, the first written with a
\* Timestamp later than the instant its Hash was taken from.
C14_Witness ==
  \E h1, h2 \in CommitHashes :
    /\ h1 # h2
    /\ commits[h1].kind = "json" /\ commits[h2].kind = "json"
    /\ commits[h1].val.Hash = CommitHash(commits[h1].val.Message, 0)
    /\ commits[h1].val.Timestamp = TimeString(1)

\* C15: without .commet/, a call of Add, Commit or Status that returns,
\* returns an error.
C15_ErrorWhenUninitialized ==
  \A p \in Procs :
    (NotInit(p) /\ Idle(p) /\ ~pre[p].vcsDir /\ res[p].status # "killed") =>
      res[p].status # "ok"

\* C16: an Add whose HashFile failed has returned that error and left the disk
\* as the call found it: staged.json there or not and what it holds, and
\* .commet/commits/.
C16_HashFailureTouchesNothing ==
  \A p \in Procs :
    (After(p, "Add") /\ res[p].at = "a_hash") =>
      /\ res[p].status = "FileError"
      /\ Snapshot = pre[p]

\* C16 witness: the Add failed in a repository with an entry staged.
C16_Witness ==
  \E p \in Procs :
    /\ Returned(p, "Add", "FileError")
    /\ StagedFile.kind = "json" /\ Len(SeqOf(StagedFile)) = 1

\* C17: a call of Add, Commit or Status that found a staged.json that does not
\* decode leaves the file as it is, however the call ends; when it returns it
\* returns an error; and the Commit leaves .commet/commits/ as it was.
C17_CorruptNotRepaired ==
  \A p \in Procs :
    (NotInit(p) /\ pre[p].staged = Torn) =>
      /\ StagedFile = Torn
      /\ Idle(p) => res[p].status # "ok"
      /\ (During(p, "Commit") \/ After(p, "Commit")) =>
           (commits = pre[p].commits /\ commitsDir = pre[p].commitsDir)

\* C17 witness: an Add returned its decode error on such a file.
C17_Witness ==
  \E p \in Procs : Returned(p, "Add", "DecodeError") /\ pre[p].staged = Torn

\* C18: a Commit that returned because MkdirAll or WriteFile failed has
\* returned an error and left staged.json as the call found it, decodable, with
\* the entries it read.
C18_FailedSaveKeepsStaging ==
  \A p \in Procs :
    (After(p, "Commit") /\ res[p].at \in {"c_mkdir", "c_create", "c_write"}
       /\ res[p].status # "killed") =>
      /\ res[p].status \in {"MkdirError", "WriteError"}
      /\ StagedFile = pre[p].staged
      /\ StagedFile = EncodeStaged(res[p].read)

\* C18 witness: the write of the record failed after the file was created.
C18_Witness ==
  \E p \in Procs :
    /\ Returned(p, "Commit", "WriteError") /\ res[p].at = "c_write"
    /\ commits[res[p].commit.Hash] = Torn

\* C19: between calls that run one after the other with no failure,
\* staged.json is not there or holds a decodable array of at least one entry;
\* a Commit that got past its Decode has read at least one entry.
C19_StagedNeverEmpty ==
  /\ AllIdle => (StagedFile = Absent
                  \/ (StagedFile.kind = "json" /\ Len(SeqOf(StagedFile)) >= 1))
  /\ \A p \in Procs :
       /\ pc[p] \in {"c_build", "c_mkdir", "c_create", "c_write", "c_remove"} =>
            Len(staged[p]) >= 1
       /\ Returned(p, "Commit", "ok") => Len(res[p].read) >= 1

\* C19 witness: a Commit returned nil.
C19_Witness ==
  \E p \in Procs : Returned(p, "Commit", "ok") /\ StagedFile = Absent

\* An Add by p and a Commit by q were alive at the same time, no other call
\* alive during either, and both returned nil.
AddWithCommit(p, q) ==
  /\ p # q /\ AllIdle
  /\ res[p].op = "Add" /\ res[p].status = "ok" /\ overlap[p] = 1
  /\ res[q].op = "Commit" /\ res[q].status = "ok" /\ overlap[q] = 1

\* C20: after an Add and a Commit alive at the same time that both returned
\* nil, the entry Add staged is among the entries the Commit read and
\* staged.json is gone, or staged.json holds that entry and nothing else
\* (nothing the Commit read is back in it).
C20_AddNotLostByCommit ==
  \A p, q \in Procs :
    AddWithCommit(p, q) =>
      \/ /\ StagedFile = Absent
         /\ \E i \in 1..Len(res[q].read) : res[q].read[i] = res[p].data
      \/ StagedFile = EncodeStaged(<<res[p].data>>)

====
